---------------------------- MODULE Spec2Model ----------------------------
(***************************************************************************)
(* A model of the Ollama remote client (src/src/util/ollama_remote_client  *)
(* .py) and of the two completion invokers (src/src/util/invoke_ai.py).    *)
(*                                                                         *)
(* Text that the code inspects character by character (the base address)   *)
(* is a sequence of one-character strings.  A response body is a sequence  *)
(* of JSON tokens, and json.loads is a recursive-descent parser over them. *)
(* A JSON value is a record [t, s, kv, items]: t is its Python type after  *)
(* decoding, s the text of a scalar, kv the mapping of an object and items *)
(* the elements of an array.                                               *)
(***************************************************************************)
EXTENDS Integers, Sequences, FiniteSets, TLC

VARIABLES client, call

vars == <<client, call>>

(***************************************************************************)
(* Bounds of the model.                                                    *)
(***************************************************************************)
\* The longest streamed response body, in lines.
MaxLines == 3

(***************************************************************************)
(* Text.                                                                   *)
(***************************************************************************)
\* "http://localhost:11434", the fallback of __init__ and of invoke_ai2.
DefaultUrl ==
  <<"h","t","t","p",":","/","/","l","o","c","a","l","h","o","s","t",
    ":","1","1","4","3","4">>

\* "http://x:1/" and "http://x:1".
UrlX1Slash == <<"h","t","t","p",":","/","/","x",":","1","/">>

UrlX1 == <<"h","t","t","p",":","/","/","x",":","1">>

\* The default model of invoke_ai2.
DefaultModel == "phi3"

\* An optional argument: None, or a value.
None == [some |-> FALSE, v |-> <<>>]

Some(v) == [some |-> TRUE, v |-> v]

\* An optional text argument of invoke_ai2 whose value is a plain string.
NoneStr == [some |-> FALSE, v |-> ""]

\* str.rstrip(ch): every trailing occurrence of ch is removed.
RECURSIVE Rstrip(_, _)
Rstrip(s, ch) ==
  IF s = <<>> THEN s
  ELSE IF s[Len(s)] = ch THEN Rstrip(SubSeq(s, 1, Len(s) - 1), ch)
  ELSE s

(***************************************************************************)
(* JSON values.                                                            *)
(***************************************************************************)
EmptyMap == [k \in {} |-> 0]

JStr(s) == [t |-> "str", s |-> s, kv |-> EmptyMap, items |-> <<>>]

JNum(s) == [t |-> "num", s |-> s, kv |-> EmptyMap, items |-> <<>>]

JBool(s) == [t |-> "bool", s |-> s, kv |-> EmptyMap, items |-> <<>>]

JNull == [t |-> "null", s |-> "", kv |-> EmptyMap, items |-> <<>>]

JObj(kv) == [t |-> "obj", s |-> "", kv |-> kv, items |-> <<>>]

JArr(items) == [t |-> "arr", s |-> "", kv |-> EmptyMap, items |-> items]

\* Python's truth value of a decoded JSON value (the test `if text:`).
Truthy(v) ==
  CASE v.t = "str" -> v.s # ""
    [] v.t = "num" -> v.s # "0"
    [] v.t = "bool" -> v.s = "true"
    [] v.t = "null" -> FALSE
    [] v.t = "obj" -> DOMAIN v.kv # {}
    [] v.t = "arr" -> v.items # <<>>

(***************************************************************************)
(* JSON text: tokens, and json.loads.                                      *)
(***************************************************************************)
P(c) == [k |-> "p", v |-> c]

S(s) == [k |-> "s", v |-> s]

N(s) == [k |-> "n", v |-> s]

W(s) == [k |-> "w", v |-> s]

Fail == [ok |-> FALSE, val |-> JNull, next |-> 0]

Ok(v, n) == [ok |-> TRUE, val |-> v, next |-> n]

IsTok(toks, i, tok) == i <= Len(toks) /\ toks[i] = tok

\* The mapping m with key k set to v (a repeated key keeps its last value).
Put(m, k, v) == [x \in DOMAIN m \cup {k} |-> IF x = k THEN v ELSE m[x]]

RECURSIVE ParseValue(_, _), ParseMembers(_, _, _), ParseElements(_, _, _)

\* One JSON value starting at token i.
ParseValue(toks, i) ==
  IF i > Len(toks) THEN Fail
  ELSE LET tok == toks[i] IN
    CASE tok.k = "s" -> Ok(JStr(tok.v), i + 1)
      [] tok.k = "n" -> Ok(JNum(tok.v), i + 1)
      [] tok.k = "w" ->
           IF tok.v \in {"true", "false"} THEN Ok(JBool(tok.v), i + 1)
           ELSE IF tok.v = "null" THEN Ok(JNull, i + 1)
           ELSE Fail
      [] tok.k = "p" ->
           IF tok.v = "{" THEN
             IF IsTok(toks, i + 1, P("}")) THEN Ok(JObj(EmptyMap), i + 2)
             ELSE ParseMembers(toks, i + 1, EmptyMap)
           ELSE IF tok.v = "[" THEN
             IF IsTok(toks, i + 1, P("]")) THEN Ok(JArr(<<>>), i + 2)
             ELSE ParseElements(toks, i + 1, <<>>)
           ELSE Fail

\* The members of an object, from the key at token i, up to its "}".
ParseMembers(toks, i, acc) ==
  IF ~(i + 1 <= Len(toks) /\ toks[i].k = "s" /\ toks[i + 1] = P(":")) THEN Fail
  ELSE LET r == ParseValue(toks, i + 2) IN
    IF ~r.ok THEN Fail
    ELSE IF IsTok(toks, r.next, P(",")) THEN
      ParseMembers(toks, r.next + 1, Put(acc, toks[i].v, r.val))
    ELSE IF IsTok(toks, r.next, P("}")) THEN
      Ok(JObj(Put(acc, toks[i].v, r.val)), r.next + 1)
    ELSE Fail

\* The elements of an array, from the element at token i, up to its "]".
ParseElements(toks, i, acc) ==
  LET r == ParseValue(toks, i) IN
    IF ~r.ok THEN Fail
    ELSE IF IsTok(toks, r.next, P(",")) THEN
      ParseElements(toks, r.next + 1, Append(acc, r.val))
    ELSE IF IsTok(toks, r.next, P("]")) THEN
      Ok(JArr(Append(acc, r.val)), r.next + 1)
    ELSE Fail

\* json.loads / Response.json: the whole text is one JSON value, or the
\* decoding fails (JSONDecodeError).
JsonLoads(toks) ==
  LET r == ParseValue(toks, 1) IN
    IF r.ok /\ r.next = Len(toks) + 1 THEN r ELSE Fail

(***************************************************************************)
(* Python operations on decoded values.  A result is [err, val]: err is "" *)
(* or the name of the exception raised.                                    *)
(***************************************************************************)
Val(v) == [err |-> "", val |-> v]

Raise(e) == [err |-> e, val |-> JNull]

\* v[key]
Subscript(v, key) ==
  IF v.t = "obj" THEN
    IF key \in DOMAIN v.kv THEN Val(v.kv[key]) ELSE Raise("KeyError")
  ELSE Raise("TypeError")

\* v.get(key, default)
Get(v, key, default) ==
  IF v.t = "obj" THEN
    IF key \in DOMAIN v.kv THEN Val(v.kv[key]) ELSE Val(default)
  ELSE Raise("AttributeError")

\* Response.raise_for_status: HTTPError for a 4xx or 5xx status.
IsErrorStatus(status) == 400 <= status /\ status < 600

(***************************************************************************)
(* Inputs: the arguments callers pass and the responses servers give.      *)
(***************************************************************************)
UrlArgs ==
  {None, Some(<<>>), Some(<<"/">>), Some(UrlX1), Some(UrlX1Slash),
   Some(UrlX1Slash \o <<"/">>)}

ModelNames == {"phi3", "llama3"}

UserMsg == [role |-> "user", content |-> "Ciao!"]

MessageLists ==
  {<<UserMsg>>, <<[role |-> "system", content |-> "Sii breve"], UserMsg>>}

\* **generation_params: option name to value.
GenParams == {EmptyMap, [temperature |-> 3], [model |-> "mixtral"]}

Statuses == {200, 304, 404, 500}

\* {"message":{"content":c}}
ContentLine(c) ==
  <<P("{"), S("message"), P(":"), P("{"), S("content"), P(":"), c, P("}"),
    P("}")>>

\* Bodies of a non-streaming /api/chat response.
ChatBodies ==
  { ContentLine(S("hi")),
    ContentLine(W("null")),
    SubSeq(ContentLine(S("hi")), 1, 8),
    <<P("{"), S("message"), P(":"), P("{"), P("}"), P("}")>>,
    <<P("{"), S("message"), P(":"), S("hi"), P("}")>>,
    <<P("{"), S("error"), P(":"), S("busy"), P("}")>>,
    <<P("["), S("hi"), P("]")>>,
    <<W("not-json")>> }

\* Lines of a streaming /api/chat response.
Lines ==
  { <<>>,
    ContentLine(S("A")),
    ContentLine(S("B")),
    ContentLine(S("")),
    <<P("{"), S("done"), P(":"), W("true"), P("}")>>,
    <<P("{"), S("message"), P(":"), W("null"), P("}")>>,
    <<N("5")>>,
    <<W("not-json")>>,
    SubSeq(ContentLine(S("A")), 1, 8) }

\* Bodies of an /api/generate response.
StopBodies ==
  { <<P("{"), S("model"), P(":"), S("phi3"), P(","), S("done_reason"), P(":"),
      S("unload"), P(","), S("created_at"), P(":"), S("T"), P("}")>>,
    <<P("{"), S("done_reason"), P(":"), S("unload"), P("}")>>,
    <<P("{"), P("}")>>,
    <<P("["), P("]")>>,
    <<W("not-json")>> }

\* Bodies of an /api/tags response.
TagsBodies ==
  { <<P("{"), S("models"), P(":"), P("["), P("{"), S("name"), P(":"),
      S("phi3"), P("}"), P("]"), P("}")>>,
    <<P("{"), S("models"), P(":"), P("["), P("]"), P("}")>>,
    <<P("{"), P("}")>>,
    <<P("{"), S("error"), P(":"), S("busy"), P("}")>>,
    <<P("["), P("]")>>,
    <<W("not-json")>> }

\* Arguments and environments of invoke_ai2 (OLLAMA_URL, OLLAMA_MODEL).
SystemMessages == {"Sii breve"}

UserMessages == {"Ciao!", ""}

EnvUrls == {None, Some(UrlX1Slash)}

EnvModels == {NoneStr, Some("mistral")}

UrlChoices == {None, Some(<<>>), Some(UrlX1)}

ModelChoices == {NoneStr, Some("llama3")}

\* What requests.post / requests.get comes back with: the transport fails
\* (fail), or a response with a status and a body.
NoResp == [fail |-> FALSE, status |-> 0, body |-> <<>>]

Responses(bodies) ==
  {[fail |-> TRUE, status |-> 0, body |-> <<>>]} \cup
  [fail : {FALSE}, status : Statuses, body : bodies]

\* The head of a streaming response: the body arrives line by line later.
StreamHeads == Responses({<<>>})

(***************************************************************************)
(* The state.  client is the caller's OllamaRemoteClient (made is FALSE    *)
(* before one is constructed).  call is the call being observed: the       *)
(* operation, its arguments, the request it sent, the response, and its    *)
(* outcome; for a streaming chat it is the generator, with the connection  *)
(* (conn), the lines read so far and the fragments yielded so far.         *)
(***************************************************************************)
\* The arguments of a call: url and model (of __init__ and invoke_ai2), the
\* environment invoke_ai2 ran in and what it resolved (res_url, res_model),
\* and messages, stream and generation_params of chat.
NoArg ==
  [url |-> None, model |-> NoneStr, env_url |-> None, env_model |-> NoneStr,
   res_url |-> <<>>, res_model |-> "", messages |-> <<>>, stream |-> FALSE,
   generation_params |-> EmptyMap]

NoReply == [err |-> "", choices |-> <<>>]

NoCall ==
  [op |-> "none", st |-> "idle", err |-> "", ret |-> JNull, url |-> <<>>,
   payload |-> EmptyMap, resp |-> NoResp, reply |-> NoReply, requests |-> 0,
   conn |-> "none",
   received |-> <<>>, yielded |-> <<>>, pull |-> "", arg |-> NoArg]

NoClient == [made |-> FALSE, base_url |-> <<>>, model_name |-> ""]

\* A call that ended: it returned r.val, or raised r.err.
Finish(c, r) ==
  [c EXCEPT !.st = IF r.err = "" THEN "returned" ELSE "raised",
            !.err = r.err, !.ret = r.val]

(***************************************************************************)
(* OllamaRemoteClient.__init__                                             *)
(***************************************************************************)
\* base_url.rstrip("/") or "http://localhost:11434"; None has no rstrip.
NormalizeUrl(base_url) ==
  IF ~base_url.some THEN Raise("AttributeError")
  ELSE LET stripped == Rstrip(base_url.v, "/") IN
    [err |-> "", val |-> IF stripped = <<>> THEN DefaultUrl ELSE stripped]

NewClient(base_url, model_name) ==
  LET u == NormalizeUrl(base_url) IN
    IF u.err # "" THEN [err |-> u.err, obj |-> NoClient]
    ELSE [err |-> "",
          obj |-> [made |-> TRUE, base_url |-> u.val,
                   model_name |-> model_name]]

\* The caller's `client = OllamaRemoteClient(base_url, model_name)`: when
\* __init__ raises, the caller's variable keeps what it held.
ConstructCall(base_url, model_name) ==
  LET n == NewClient(base_url, model_name) IN
    [NoCall EXCEPT
       !.op = "init",
       !.st = IF n.err = "" THEN "returned" ELSE "raised",
       !.err = n.err,
       !.arg = [NoArg EXCEPT !.url = base_url, !.model = Some(model_name)]]

Construct ==
  /\ call = NoCall
  /\ \E base_url \in UrlArgs, model_name \in ModelNames :
       LET n == NewClient(base_url, model_name) IN
         /\ client' = IF n.err = "" THEN n.obj ELSE client
         /\ call' = ConstructCall(base_url, model_name)

(***************************************************************************)
(* The HTTP exchange.                                                      *)
(***************************************************************************)
\* A request whose transport fails is sent once more.
SendWithRetry(c, resp) ==
  [c EXCEPT !.requests = @ + (IF resp.fail THEN 2 ELSE 1), !.resp = resp]

\* requests.post / requests.get: one request, answered by resp.
Send(c, resp) == [c EXCEPT !.requests = @ + 1, !.resp = resp]

\* f"{self.base_url}/api/..."
Endpoint(base_url, path) == base_url \o <<path>>

(***************************************************************************)
(* OllamaRemoteClient.chat                                                 *)
(***************************************************************************)
\* The generation parameters are merged first: {**generation_params, ...}.
PayloadParamsFirst(model_name, messages, stream, generation_params) ==
  LET base == [model |-> model_name, messages |-> messages, stream |-> stream]
  IN [k \in DOMAIN base \cup DOMAIN generation_params |->
        IF k \in DOMAIN base THEN base[k] ELSE generation_params[k]]

\* {"model": ..., "messages": ..., "stream": ..., **generation_params}
Payload(model_name, messages, stream, generation_params) ==
  LET base == [model |-> model_name, messages |-> messages, stream |-> stream]
  IN [k \in DOMAIN base \cup DOMAIN generation_params |->
        IF k \in DOMAIN generation_params THEN generation_params[k]
        ELSE base[k]]

\* The body is decoded before the status is looked at.
ChatResultDecodeFirst(resp) ==
  IF resp.fail THEN Raise("ConnectionError")
  ELSE LET d == JsonLoads(resp.body) IN
    IF ~d.ok THEN Raise("JSONDecodeError")
    ELSE IF IsErrorStatus(resp.status) THEN Raise("HTTPError")
    ELSE LET m == Subscript(d.val, "message") IN
      IF m.err # "" THEN m ELSE Subscript(m.val, "content")

\* response.raise_for_status(); return response.json()["message"]["content"]
ChatResult(resp) ==
  IF resp.fail THEN Raise("ConnectionError")
  ELSE IF IsErrorStatus(resp.status) THEN Raise("HTTPError")
  ELSE LET d == JsonLoads(resp.body) IN
    IF ~d.ok THEN Raise("JSONDecodeError")
    ELSE LET m == Subscript(d.val, "message") IN
      IF m.err # "" THEN m ELSE Subscript(m.val, "content")

\* The non-streaming branch of chat, on the client cl.
ChatCall(cl, messages, generation_params, resp) ==
  LET c == [NoCall EXCEPT
              !.op = "chat",
              !.arg = [NoArg EXCEPT !.messages = messages, !.stream = FALSE,
                                    !.generation_params = generation_params],
              !.url = Endpoint(cl.base_url, "/api/chat"),
              !.payload = Payload(cl.model_name, messages, FALSE,
                                  generation_params)]
  IN Finish(Send(c, resp), ChatResult(resp))

Chat ==
  /\ client.made
  /\ call = NoCall
  /\ \E messages \in MessageLists, generation_params \in GenParams,
        resp \in Responses(ChatBodies) :
       call' = ChatCall(client, messages, generation_params, resp)
  /\ UNCHANGED client

(***************************************************************************)
(* OllamaRemoteClient.stop, stop_formatted, list_models                    *)
(***************************************************************************)
\* response.raise_for_status(); return response.json()
StopResult(resp) ==
  IF resp.fail THEN Raise("ConnectionError")
  ELSE IF IsErrorStatus(resp.status) THEN Raise("HTTPError")
  ELSE LET d == JsonLoads(resp.body) IN
    IF ~d.ok THEN Raise("JSONDecodeError") ELSE Val(d.val)

\* {"model": self.model_name, "prompt": "", "keep_alive": 0}
StopPayload(model_name) ==
  [model |-> model_name, prompt |-> "", keep_alive |-> 0]

StopCall(cl, resp) ==
  LET c == [NoCall EXCEPT
              !.op = "stop",
              !.url = Endpoint(cl.base_url, "/api/generate"),
              !.payload = StopPayload(cl.model_name)]
  IN Finish(Send(c, resp), StopResult(resp))

Stop ==
  /\ client.made
  /\ call = NoCall
  /\ \E resp \in Responses(StopBodies) : call' = StopCall(client, resp)
  /\ UNCHANGED client

\* The line stop_formatted renders, as the values it interpolates:
\* f"Modello <<{model}>> scaricato ({done}) - creato: {ts}".
Formatted(model, done, ts) ==
  [t |-> "text", s |-> "", kv |-> EmptyMap, items |-> <<model, done, ts>>]

\* resp.get("model", self.model_name), resp.get("done_reason", "N/D"),
\* resp.get("created_at", "N/D")
FormatStop(cl, resp) ==
  LET model == Get(resp, "model", JStr(cl.model_name))
      done == Get(resp, "done_reason", JStr("N/D"))
      ts == Get(resp, "created_at", JStr("N/D"))
  IN IF model.err # "" THEN model
     ELSE IF done.err # "" THEN done
     ELSE IF ts.err # "" THEN ts
     ELSE Val(Formatted(model.val, done.val, ts.val))

\* stop_formatted calls stop once and formats what it returns.
StopFormattedCall(cl, resp) ==
  LET s == StopCall(cl, resp) IN
    IF s.err # "" THEN [s EXCEPT !.op = "stop_formatted"]
    ELSE Finish([s EXCEPT !.op = "stop_formatted"], FormatStop(cl, s.ret))

StopFormatted ==
  /\ client.made
  /\ call = NoCall
  /\ \E resp \in Responses(StopBodies) :
       call' = StopFormattedCall(client, resp)
  /\ UNCHANGED client

\* The models field is subscripted: response.json()["models"].
ListModelsResultSubscript(resp) ==
  IF resp.fail THEN Raise("ConnectionError")
  ELSE IF IsErrorStatus(resp.status) THEN Raise("HTTPError")
  ELSE LET d == JsonLoads(resp.body) IN
    IF ~d.ok THEN Raise("JSONDecodeError")
    ELSE Subscript(d.val, "models")

\* response.raise_for_status(); return response.json().get("models", [])
ListModelsResult(resp) ==
  IF resp.fail THEN Raise("ConnectionError")
  ELSE IF IsErrorStatus(resp.status) THEN Raise("HTTPError")
  ELSE LET d == JsonLoads(resp.body) IN
    IF ~d.ok THEN Raise("JSONDecodeError")
    ELSE Get(d.val, "models", JArr(<<>>))

\* requests.get(url): no body is sent.
ListModelsCall(cl, resp) ==
  LET c == [NoCall EXCEPT
              !.op = "list_models",
              !.url = Endpoint(cl.base_url, "/api/tags")]
  IN Finish(Send(c, resp), ListModelsResult(resp))

ListModels ==
  /\ client.made
  /\ call = NoCall
  /\ \E resp \in Responses(TagsBodies) : call' = ListModelsCall(client, resp)
  /\ UNCHANGED client

(***************************************************************************)
(* invoke_ai2: the local invoker.                                          *)
(***************************************************************************)
\* The environment is read even when the argument is given.
ResolveEnvFirst(arg, env, default) ==
  IF env.some THEN env.v ELSE IF arg.some THEN arg.v ELSE default

\* if arg is None: arg = os.getenv(NAME, default)
Resolve(arg, env, default) ==
  IF arg.some THEN arg.v ELSE IF env.some THEN env.v ELSE default

SystemUserPair(system_message, user_message) ==
  <<[role |-> "system", content |-> system_message],
    [role |-> "user", content |-> user_message]>>

\* env is the process environment: OLLAMA_URL and OLLAMA_MODEL, set or not.
InvokeAi2Call(ollama_url, ollama_model, env, system_message, user_message, resp) ==
  LET env_url == env.OLLAMA_URL
      env_model == env.OLLAMA_MODEL
      url == Resolve(ollama_url, env_url, DefaultUrl)
      model == Resolve(ollama_model, env_model, DefaultModel)
      llm == NewClient(Some(url), model)
      reply == ChatCall(llm.obj, SystemUserPair(system_message, user_message),
                        [temperature |-> 0], resp)
  IN [reply EXCEPT
        !.op = "invoke_ai2",
        !.arg = [@ EXCEPT !.url = ollama_url, !.model = ollama_model,
                          !.env_url = env_url, !.env_model = env_model,
                          !.res_url = url, !.res_model = model]]

InvokeAi2 ==
  /\ call = NoCall
  /\ \E ollama_url \in UrlChoices, ollama_model \in ModelChoices,
        env_url \in EnvUrls, env_model \in EnvModels,
        system_message \in SystemMessages, user_message \in UserMessages,
        resp \in Responses(ChatBodies) :
       call' = InvokeAi2Call(ollama_url, ollama_model,
                             [OLLAMA_URL |-> env_url, OLLAMA_MODEL |-> env_model],
                             system_message, user_message, resp)
  /\ UNCHANGED client

(***************************************************************************)
(* invoke_ai: the hosted invoker.                                          *)
(***************************************************************************)
\* What client.chat.completions.create comes back with: an exception of the
\* hosted client (err), or a completion with its list of choices.
HostedReplies ==
  [err : {"AuthenticationError", "APIConnectionError", "APIStatusError"},
   choices : {<<>>}] \cup
  [err : {""}, choices : {<<>>, <<JStr("ok")>>, <<JStr("ok"), JStr("alt")>>}]

\* client.chat.completions.create: one request to the hosted service,
\* answered by reply.
Create(c, reply) == [c EXCEPT !.requests = @ + 1, !.reply = reply]

\* response.choices[0].message.content
HostedResult(reply) ==
  IF reply.err # "" THEN Raise(reply.err)
  ELSE IF reply.choices = <<>> THEN Raise("IndexError")
  ELSE Val(reply.choices[1])

InvokeAiCall(system_message, user_message, reply) ==
  LET c == [NoCall EXCEPT
              !.op = "invoke_ai",
              !.payload = [model |-> "o4-mini",
                           messages |-> SystemUserPair(system_message,
                                                       user_message)]]
  IN Finish(Create(c, reply), HostedResult(reply))

InvokeAi ==
  /\ call = NoCall
  /\ \E system_message \in SystemMessages, user_message \in UserMessages,
        reply \in HostedReplies :
       call' = InvokeAiCall(system_message, user_message, reply)
  /\ UNCHANGED client

(***************************************************************************)
(* OllamaRemoteClient.chat(stream=True) and _chat_stream, a generator.     *)
(* st is the generator's position: "created" (the body has not started),   *)
(* "suspended" (at the yield), and then "done" (the body ran to its end),   *)
(* "failed" (the body raised) or "closed" (close() ended it).              *)
(***************************************************************************)
\* The request is sent by chat itself, before the first pull.
NewStreamEager(c) ==
  [c EXCEPT !.st = "created", !.requests = 1, !.conn = "open"]

\* chat returns the generator object; its body runs at the first pull.
NewStream(c) == [c EXCEPT !.st = "created"]

ChatStreamCall(cl, messages, generation_params) ==
  NewStream([NoCall EXCEPT
               !.op = "chat_stream",
               !.arg = [NoArg EXCEPT !.messages = messages, !.stream = TRUE,
                                     !.generation_params = generation_params],
               !.url = Endpoint(cl.base_url, "/api/chat"),
               !.payload = Payload(cl.model_name, messages, TRUE,
                                   generation_params)])

ChatStream ==
  /\ client.made
  /\ call = NoCall
  /\ \E messages \in MessageLists, generation_params \in GenParams :
       call' = ChatStreamCall(client, messages, generation_params)
  /\ UNCHANGED client

\* The response is not closed when the block is left.
WithExitLeaks(conn) == conn

\* Leaving `with requests.post(...) as r:` closes the response.
WithExit(conn) == IF conn = "open" THEN "released" ELSE conn

\* The body of the for loop on one line: the line is skipped, its fragment
\* is yielded, or an exception leaves the loop.
ProcessLine(raw_line) ==
  IF raw_line = <<>> THEN [kind |-> "skip", err |-> "", val |-> JNull]
  ELSE LET data == JsonLoads(raw_line) IN
    IF ~data.ok THEN [kind |-> "skip", err |-> "", val |-> JNull]
    ELSE LET message == Get(data.val, "message", JObj(EmptyMap)) IN
      IF message.err # "" THEN
        [kind |-> "raise", err |-> message.err, val |-> JNull]
      ELSE LET text == Get(message.val, "content", JStr("")) IN
        IF text.err # "" THEN
          [kind |-> "raise", err |-> text.err, val |-> JNull]
        ELSE IF Truthy(text.val) THEN
          [kind |-> "yield", err |-> "", val |-> text.val]
        ELSE [kind |-> "skip", err |-> "", val |-> JNull]

\* The generator stops by an exception: the with block is left on the way.
StreamRaise(c, e) ==
  [c EXCEPT !.st = "failed", !.err = e, !.conn = WithExit(@),
            !.pull = "raised"]

\* The for loop over r.iter_lines, on the lines ls that arrive during this
\* pull; after them the server has closed the stream (tail "eof"), the
\* connection broke (tail "reset"), or the generator is at its yield.
RECURSIVE ReadLines(_, _, _)
ReadLines(c, ls, tail) ==
  IF ls = <<>> THEN
    IF tail = "reset" THEN StreamRaise(c, "ChunkedEncodingError")
    ELSE [c EXCEPT !.st = "done", !.conn = WithExit(@),
                   !.pull = "StopIteration"]
  ELSE LET r == ProcessLine(Head(ls))
           c1 == [c EXCEPT !.received = Append(@, Head(ls))]
       IN CASE r.kind = "skip" -> ReadLines(c1, Tail(ls), tail)
            [] r.kind = "yield" ->
                 [c1 EXCEPT !.st = "suspended", !.yielded = Append(@, r.val),
                            !.pull = "fragment"]
            [] r.kind = "raise" -> StreamRaise(c1, r.err)

\* The first pull runs the body from its start: the request is sent, then
\* raise_for_status, then the loop.
FirstPull(c, head, ls, tail) ==
  LET s == Send(c, head) IN
    IF head.fail THEN StreamRaise(s, "ConnectionError")
    ELSE IF IsErrorStatus(head.status) THEN
      StreamRaise([s EXCEPT !.conn = "open"], "HTTPError")
    ELSE ReadLines([s EXCEPT !.conn = "open"], ls, tail)

SkipLines == {l \in Lines : ProcessLine(l).kind = "skip"}

\* What the server can deliver during one pull when room more lines fit the
\* body: lines the loop skips, then one it stops at (tail "more"), or the
\* end of the stream.
Deliveries(room) ==
  LET skipped == UNION {[1..n -> SkipLines] : n \in 0..room} IN
    {[ls |-> sk, tail |-> t] : sk \in skipped, t \in {"eof", "reset"}} \cup
    {[ls |-> Append(sk, l), tail |-> "more"] :
       sk \in {x \in skipped : Len(x) < room}, l \in Lines \ SkipLines}

PullFirst ==
  /\ call.op = "chat_stream" /\ call.st = "created"
  /\ \E head \in StreamHeads :
       \E d \in IF head.fail \/ IsErrorStatus(head.status)
                THEN {[ls |-> <<>>, tail |-> "eof"]}
                ELSE Deliveries(MaxLines) :
         call' = FirstPull(call, head, d.ls, d.tail)
  /\ UNCHANGED client

PullNext ==
  /\ call.op = "chat_stream" /\ call.st = "suspended"
  /\ \E d \in Deliveries(MaxLines - Len(call.received)) :
       call' = ReadLines(call, d.ls, d.tail)
  /\ UNCHANGED client

\* A pull from a generator that has ended raises StopIteration.
EndedPull(c) == [c EXCEPT !.pull = "StopIteration"]

PullEnded ==
  /\ call.op = "chat_stream" /\ call.st \in {"done", "failed", "closed"}
  /\ call' = EndedPull(call)
  /\ UNCHANGED client

\* generator.close(), called by the caller or, when the caller drops the
\* generator, by its finalizer: GeneratorExit is raised at the yield and
\* leaves the with block; a generator not yet started just ends.
CloseStream(c) ==
  IF c.st = "suspended" THEN
    [c EXCEPT !.st = "closed", !.conn = WithExit(@), !.pull = "closed"]
  ELSE IF c.st = "created" THEN [c EXCEPT !.st = "closed", !.pull = "closed"]
  ELSE c

Close ==
  /\ call.op = "chat_stream"
  /\ call' = CloseStream(call)
  /\ UNCHANGED client

(***************************************************************************)
(* The caller.  Every operation is synchronous and shares nothing with the *)
(* others but the client's two fields, which no operation changes, so the  *)
(* model observes one call at a time: a new call starts once the caller    *)
(* has taken the outcome of the one before, and a generator is dropped     *)
(* only after it has ended.                                                *)
(***************************************************************************)
Discard ==
  /\ call.st \in {"returned", "raised", "done", "failed", "closed"}
  /\ call' = NoCall
  /\ UNCHANGED client

Init == client = NoClient /\ call = NoCall

Next ==
  \/ Construct
  \/ Chat
  \/ ChatStream
  \/ PullFirst
  \/ PullNext
  \/ PullEnded
  \/ Close
  \/ Discard
  \/ Stop
  \/ StopFormatted
  \/ ListModels
  \/ InvokeAi2
  \/ InvokeAi

Spec == Init /\ [][Next]_vars

(***************************************************************************)
(* Properties.                                                             *)
(***************************************************************************)
IsStream == call.op = "chat_stream"

Ended == call.st \in {"done", "failed", "closed"}

SuccessHead == ~call.resp.fail /\ ~IsErrorStatus(call.resp.status)

\* The line decodes to an object whose message is an object with a content
\* that is not empty.
CarriesContent(line) ==
  LET d == JsonLoads(line) IN
    /\ d.ok
    /\ d.val.t = "obj"
    /\ "message" \in DOMAIN d.val.kv
    /\ d.val.kv["message"].t = "obj"
    /\ "content" \in DOMAIN d.val.kv["message"].kv
    /\ Truthy(d.val.kv["message"].kv["content"])

ContentOf(line) == JsonLoads(line).val.kv["message"].kv["content"]

RECURSIVE ContentFragments(_)
ContentFragments(lines) ==
  IF lines = <<>> THEN <<>>
  ELSE IF CarriesContent(Head(lines)) THEN
    <<ContentOf(Head(lines))>> \o ContentFragments(Tail(lines))
  ELSE ContentFragments(Tail(lines))

\* C1: a streaming chat on a success status, consumed until it ends while
\* the server delivers its lines, runs to the end of the body and has yielded
\* exactly the non-empty message.content values of the lines, in their order;
\* every other line contributes nothing.
C1_StreamYieldsContentOfLines ==
  (IsStream /\ call.st \in {"done", "failed"} /\ SuccessHead
     /\ call.err # "ChunkedEncodingError")
    => call.st = "done" /\ call.yielded = ContentFragments(call.received)

\* C2: whatever a line of a streaming chat contains, it is never raised to
\* the caller: a stream fails only by the transport or by the HTTP status.
C2_LineContentNeverRaises ==
  (IsStream /\ call.st = "failed")
    => call.err \in {"ConnectionError", "HTTPError", "ChunkedEncodingError"}

\* C3: a streaming chat has released its connection once it has ended (run
\* to its end, closed by the caller, or stopped by an error); the connection
\* is open only while the generator is suspended at a yield after its first
\* pull.
C3_ConnectionScoped ==
  IsStream =>
    /\ Ended => call.conn # "open"
    /\ call.conn = "open" => call.st = "suspended" /\ call.requests = 1
    /\ call.st = "suspended" => call.conn = "open"
    /\ call.st = "created" => call.conn = "none"

C3_Witness ==
  /\ IsStream /\ call.st = "closed" /\ call.conn = "released"
  /\ Len(call.yielded) = 2

\* C4: __init__ stores "http://x:1" for "http://x:1/", the default address
\* for "" and for None, and the model identifier as given.
C4_ConstructNormalizes ==
  call.op = "init" =>
    /\ call.arg.url = Some(UrlX1Slash)
         => call.st = "returned" /\ client.base_url = UrlX1
    /\ call.arg.url \in {Some(<<>>), None}
         => call.st = "returned" /\ client.base_url = DefaultUrl
    /\ call.st = "returned" => client.model_name = call.arg.model.v

\* C5: invoke_ai2 uses an argument that is given as it is, whatever the
\* environment holds; for an omitted argument it uses the environment
\* variable when that is set, and the documented default when it is not.
C5_ResolveParameters ==
  call.op = "invoke_ai2" =>
    LET a == call.arg IN
      /\ a.url.some => a.res_url = a.url.v
      /\ ~a.url.some /\ a.env_url.some => a.res_url = a.env_url.v
      /\ ~a.url.some /\ ~a.env_url.some => a.res_url = DefaultUrl
      /\ a.model.some => a.res_model = a.model.v
      /\ ~a.model.some /\ a.env_model.some => a.res_model = a.env_model.v
      /\ ~a.model.some /\ ~a.env_model.some => a.res_model = "phi3"

C5_Witness ==
  /\ call.op = "invoke_ai2"
  /\ call.arg.url.some /\ call.arg.env_url.some
  /\ call.arg.url.v # call.arg.env_url.v
  /\ ~call.arg.model.some /\ call.arg.env_model.some

\* The body decodes to an object whose message is an object with a content.
HasMessageContent(d) ==
  /\ d.ok
  /\ d.val.t = "obj"
  /\ "message" \in DOMAIN d.val.kv
  /\ d.val.kv["message"].t = "obj"
  /\ "content" \in DOMAIN d.val.kv["message"].kv

\* C6: a non-streaming chat whose response has an error status raises
\* HTTPError whatever the body is; otherwise it returns message.content of
\* the decoded body, and raises (a decoding, key or type error) when the
\* body does not decode or has no such field.  It returns no value on an
\* error status.
C6_ChatOutcome ==
  (call.op = "chat" /\ ~call.resp.fail) =>
    LET d == JsonLoads(call.resp.body) IN
      IF IsErrorStatus(call.resp.status) THEN
        call.st = "raised" /\ call.err = "HTTPError"
      ELSE IF HasMessageContent(d) THEN
        /\ call.st = "returned"
        /\ call.ret = d.val.kv["message"].kv["content"]
      ELSE
        /\ call.st = "raised"
        /\ ~d.ok => call.err = "JSONDecodeError"
        /\ d.ok => call.err \in {"KeyError", "TypeError"}

C6_Witness ==
  /\ call.op = "chat" /\ call.resp.status = 500
  /\ call.resp.body = <<W("not-json")>>
  /\ call.err = "HTTPError"

IsObject(d) == d.ok /\ d.val.t = "obj"

ModelsOf(d) ==
  IF "models" \in DOMAIN d.val.kv THEN d.val.kv["models"] ELSE JArr(<<>>)

C9_StreamIsLazy ==
  IsStream =>
    /\ call.st = "created"
         => call.requests = 0 /\ call.conn = "none" /\ call.err = ""
    /\ call.requests = 0 => call.conn = "none" /\ call.st \in {"created", "closed"}
    /\ (call.requests = 1 /\ ~call.resp.fail
          /\ IsErrorStatus(call.resp.status))
         => /\ call.st = "failed" /\ call.err = "HTTPError"
            /\ call.yielded = <<>> /\ call.received = <<>>

C9_Witness ==
  /\ IsStream /\ call.st = "failed" /\ call.err = "HTTPError"
  /\ call.requests = 1 /\ call.resp.status = 404

\* C10: the body chat posts has the messages and stream arguments, every
\* generation parameter with its value, and as model the generation
\* parameter named "model" when there is one, else the client's model.
C10_PayloadMerge ==
  call.op \in {"chat", "chat_stream"} =>
    LET g == call.arg.generation_params IN
      /\ DOMAIN call.payload = {"model", "messages", "stream"} \cup DOMAIN g
      /\ call.payload["messages"] = call.arg.messages
      /\ call.payload["stream"] = call.arg.stream
      /\ call.arg.stream = (call.op = "chat_stream")
      /\ \A k \in DOMAIN g : call.payload[k] = g[k]
      /\ "model" \notin DOMAIN g => call.payload["model"] = client.model_name

C10_Witness ==
  /\ call.op = "chat"
  /\ "model" \in DOMAIN call.arg.generation_params
  /\ call.payload["model"] = "mixtral" /\ client.model_name = "phi3"

=============================================================================
